---- MODULE Spec2Model ----
(***************************************************************************)
(* The dashboard aggregator of inaciog/dashboard-app as a state machine.   *)
(*                                                                         *)
(* The repository holds two builds of the server:                          *)
(*   "server"  src/server.js           token in the URL or the             *)
(*                                     Authorization header, verified      *)
(*                                     locally (jwt.verify)                *)
(*   "cookie"  src/unnamed/part_000    token in a cookie or the            *)
(*                                     Authorization header, verified by   *)
(*                                     a call to the identity provider     *)
(* The variable `variant` says which build is running; it never changes.   *)
(*                                                                         *)
(* A request travels through Express' middleware stack (Layers), then a    *)
(* route handler. Every `await` on an outbound call is a point where the   *)
(* handler is suspended: one action issues the call, a second one takes    *)
(* the reply, so that other requests interleave between the two.           *)
(***************************************************************************)
EXTENDS Integers, Sequences, FiniteSets, TLC

VARIABLES
  variant,    \* which build runs: "server" or "cookie"
  reqs,       \* per connection slot: the request being served and its handler's state
  completed,  \* the Reminders backend: the `completed` flag of every reminder
  now         \* the server's clock (Date.now())

vars == <<variant, reqs, completed, now>>

---------------------------------------------------------------------------
(* Bounds of the model.                                                    *)

\* Date.now() takes the values 0..MaxClock.
MaxClock == 1
\* A backend's list (today's reminders, upcoming seminars) holds 0..MaxList items.
MaxList == 6

\* The connection slots: two requests at most are in flight.
Slots == {"c1", "c2"}

---------------------------------------------------------------------------
(* Configuration.                                                          *)

Variants == {"server", "cookie"}

AUTH_SERVICE == "https://inacio-auth.fly.dev"
\* part_000 builds the return URL on this fixed origin
DASHBOARD_ORIGIN == "https://inacio-dashboard.fly.dev"

\* The app registry of each build.
APPS(v) ==
  IF v = "server"
  THEN [reminders    |-> [name |-> "Reminders", url |-> "https://reminders-app.fly.dev",
                          apiSecret |-> "assistant-secret-key"],
        classquizzes |-> [name |-> "ClassQuizzes", url |-> "https://classquizzes.fly.dev"],
        seminars     |-> [name |-> "Seminars", url |-> "https://seminars-app.fly.dev",
                          apiSecret |-> "seminars-api-secret-for-dashboard"]]
  ELSE [reminders    |-> [name |-> "Reminders", url |-> "https://reminders-app.fly.dev",
                          apiSecret |-> "assistant-secret-key"]]

\* slice(0, 5): the size of the preview list
PreviewCap == 5

\* The files under public/ (express.static('public')).
PublicFiles == {<<"index.html">>}

---------------------------------------------------------------------------
(* Requests.                                                               *)

\* The reminders the backend holds, by id, and the ids a client may ask for.
ItemIds == <<"a", "b">>
ParamIds == {"a", "z"}

Origins == {DASHBOARD_ORIGIN, "http://localhost:8080"}

\* A bearer token is "good" (the identity provider signed it and it has not
\* expired) or "bad"; "none" is a channel that carries nothing.
Tokens == {"good", "bad"}

\* The credential channels a build reads; the other build's channel is left empty.
Credentials(v) ==
  {[queryToken |-> "none", cookieToken |-> "none", bearer |-> "none"]}
  \cup {[queryToken |-> "none", cookieToken |-> "none", bearer |-> t] : t \in Tokens}
  \cup (IF v = "server"
        THEN {[queryToken |-> t, cookieToken |-> "none", bearer |-> "none"] : t \in Tokens}
        ELSE {[queryToken |-> "none", cookieToken |-> t, bearer |-> "none"] : t \in Tokens})

\* JSON bodies of POST /api/reminders: notes and priority may be left out.
NoBody == [none |-> TRUE]
CreateBodies ==
  {[title |-> "Buy milk"],
   [title |-> "Buy milk", notes |-> "2 litres"],
   [title |-> "Buy milk", priority |-> "high"],
   [title |-> "Buy milk", notes |-> "2 litres", priority |-> "high"]}

\* API requests, on the dashboard's own origin.
ApiTargets ==
  {[method |-> "GET",  path |-> <<"api", "overview">>, body |-> NoBody],
   [method |-> "GET",  path |-> <<"api", "reminders">>, body |-> NoBody],
   [method |-> "GET",  path |-> <<"api", "api", "ping">>, body |-> NoBody]}
  \cup {[method |-> "POST", path |-> <<"api", "reminders">>, body |-> b] : b \in CreateBodies}
  \cup {[method |-> "POST", path |-> <<"api", "reminders", id, "complete">>, body |-> NoBody] :
          id \in ParamIds}

\* Page requests: a file of public/ and a path that is none, on either origin.
PageTargets ==
  {[method |-> "GET",  path |-> <<"index.html">>, body |-> NoBody],
   [method |-> "GET",  path |-> <<"app">>, body |-> NoBody]}

Request(t, o, c) ==
  [method |-> t.method, path |-> t.path, body |-> t.body, origin |-> o,
   queryToken |-> c.queryToken, cookieToken |-> c.cookieToken, bearer |-> c.bearer]

Requests(v) ==
  {Request(t, DASHBOARD_ORIGIN, c) : t \in ApiTargets, c \in Credentials(v)}
  \cup {Request(t, o, c) : t \in PageTargets, o \in Origins, c \in Credentials(v)}

NoRequest ==
  [method |-> "", path |-> <<>>, body |-> NoBody, origin |-> "",
   queryToken |-> "none", cookieToken |-> "none", bearer |-> "none"]

---------------------------------------------------------------------------
(* URLs.                                                                   *)

\* A URL: origin (protocol://host), path segments, query string.
Url(origin, path, query) == [origin |-> origin, path |-> path, query |-> query]

\* The query string of the request: the token when it travels in the URL.
QueryString(q) == IF q.queryToken = "none" THEN "" ELSE "token=" \o q.queryToken

\* The URL the client asked for.
RequestedUrl(q) == Url(q.origin, q.path, QueryString(q))

\* req.originalUrl: the full path and query, whatever the mount point.
OriginalUrl(q) == [path |-> q.path, query |-> QueryString(q)]

\* Whether `mount` is a prefix of `path` (how app.use(mount, ...) matches).
Mounted(mount, path) ==
  /\ Len(mount) <= Len(path)
  /\ \A i \in 1..Len(mount) : path[i] = mount[i]

\* req.path inside a middleware: the path with the mount point taken off.
ReqPath(mount, path) == SubSeq(path, Len(mount) + 1, Len(path))

\* req.path.startsWith('/api/')
StartsWithApi(p) == Len(p) >= 2 /\ p[1] = "api"

\* encodeURIComponent: the URL travels as one opaque, decodable component.
encodeURIComponent(u) == [component |-> u]
decodeURIComponent(c) == c.component

\* `${AUTH_SERVICE}/login?returnTo=${encodeURIComponent(url)}`
LoginUrlReturning(u) ==
  [endpoint |-> AUTH_SERVICE \o "/login", params |-> {"returnTo"},
   returnTo |-> encodeURIComponent(u)]
\* `${AUTH_SERVICE}/login`
LoginUrlBare == [endpoint |-> AUTH_SERVICE \o "/login", params |-> {}]

---------------------------------------------------------------------------
(* Responses.                                                              *)

NoResponse == [status |-> 0, kind |-> "none"]
\* res.redirect(url): Express answers 302 with a Location header
Redirect(url) == [status |-> 302, kind |-> "redirect", location |-> url]
\* res.status(s).json(body)
Json(s, b) == [status |-> s, kind |-> "json", body |-> b]
\* express.static sends the file
File(p) == [status |-> 200, kind |-> "file", file |-> p]
\* Express' final handler: no layer answered
CannotRoute == [status |-> 404, kind |-> "html"]

---------------------------------------------------------------------------
(* The middleware stack, in the order of the app.use calls.                *)

Layer(mw, mount) == [mw |-> mw, mount |-> mount]

Layers(v) ==
  IF v = "server"
  THEN << Layer("static", <<>>),            \* app.use(express.static('public'))
          Layer("checkAuth", <<"api">>),    \* app.use('/api', checkAuth)
          Layer("routes", <<>>) >>          \* app.get / app.post
  ELSE << Layer("static", <<>>),            \* app.use(express.static('public'))
          Layer("requireAuth", <<"api">>),  \* app.use('/api', requireAuth)
          Layer("requireAuth", <<>>),       \* app.use('/', requireAuth, ...
          Layer("static", <<>>),            \*   ... express.static('public'))
          Layer("routes", <<>>) >>          \* app.get / app.post

\* next(): the first later layer whose mount point matches the path.
NextLayer(v, i, path) ==
  CHOOSE j \in (i + 1)..Len(Layers(v)) :
    /\ Mounted(Layers(v)[j].mount, path)
    /\ \A k \in (i + 1)..(j - 1) : ~Mounted(Layers(v)[k].mount, path)

---------------------------------------------------------------------------
(* The state of one request.                                               *)

NoUser == "none"
\* the identity the credential "good" stands for
TheUser == "inacio"

Idle ==
  [pc |-> "idle", layer |-> 0, req |-> NoRequest, start |-> 0,
   user |-> NoUser, token |-> "none", validated |-> 0, verifyCalls |-> 0,
   handler |-> "none", calls |-> <<>>, apps |-> <<>>, ts |-> 0,
   resp |-> NoResponse, responses |-> 0]

\* The layer the request stands at, and the mount point it runs under.
AtLayer(r, mw) ==
  /\ reqs[r].pc = "layer"
  /\ Layers(variant)[reqs[r].layer].mw = mw
MountOf(r) == Layers(variant)[reqs[r].layer].mount

\* next(): hand the request to the next matching layer.
Forward(s) == [s EXCEPT !.layer = NextLayer(variant, s.layer, s.req.path)]

\* A handler that writes its response a second time before it ends.
RespondTwice(s, resp) ==
  [s EXCEPT !.pc = "done", !.resp = resp, !.responses = s.responses + 2]

\* res.redirect / res.json / res.send: the response is written and the request ends.
Respond(s, resp) ==
  [s EXCEPT !.pc = "done", !.resp = resp, !.responses = s.responses + 1]

InFlight(r) == reqs[r].pc # "idle"

IsToggle(q) ==
  q.method = "POST" /\ Len(q.path) = 4 /\ q.path[1] = "api"
  /\ q.path[2] = "reminders" /\ q.path[4] = "complete"

\* Requests share nothing but the Reminders backend, which only the toggle
\* handler reads and then writes: a request is admitted next to one in flight
\* only when it is a toggle and the other one is a toggle in its handler; the
\* other requests are served one at a time.
Admissible(r, q) ==
  \A o \in Slots \ {r} :
    InFlight(o) => (IsToggle(q) /\ reqs[o].handler = "toggle" /\ reqs[o].pc # "done")

---------------------------------------------------------------------------
(* Arrival, the clock, express.static.                                     *)

\* The process has started and no request is in flight. The Reminders backend
\* holds its items in any state; an item no request names keeps its flag for
\* good, so one value of it is enough.
Init ==
  /\ variant \in Variants
  /\ reqs = [r \in Slots |-> Idle]
  /\ completed \in {f \in [{ItemIds[i] : i \in 1..Len(ItemIds)} -> BOOLEAN] :
                      \A i \in DOMAIN f : i \notin ParamIds => ~f[i]}
  /\ now = 0

\* The one route whose handler reads the clock.
IsOverview(q) == q.method = "GET" /\ q.path = <<"api", "overview">>

\* A request arrives on a free connection; json() and cookieParser() only parse.
\* The arrival time is kept for the requests whose handler reads the clock.
Arrive(r) ==
  /\ reqs[r].pc = "idle"
  /\ \E q \in Requests(variant) :
       /\ Admissible(r, q)
       /\ reqs' = [reqs EXCEPT ![r] =
                     [Idle EXCEPT !.pc = "layer", !.layer = 1, !.req = q,
                                  !.start = IF IsOverview(q) THEN now ELSE 0]]
  /\ UNCHANGED <<variant, completed, now>>

\* Time passes.
Tick ==
  /\ now < MaxClock
  /\ now' = now + 1
  /\ UNCHANGED <<variant, reqs, completed>>

\* The response has been sent; the connection serves the next request.
Retire(r) ==
  /\ reqs[r].pc = "done"
  /\ reqs' = [reqs EXCEPT ![r] = Idle]
  /\ UNCHANGED <<variant, completed, now>>

\* express.static('public'): a GET of an existing file is answered with the
\* file; everything else goes on to the next layer.
StaticServes(q) == q.method = "GET" /\ q.path \in PublicFiles

Static(r) ==
  /\ AtLayer(r, "static")
  /\ reqs' = [reqs EXCEPT ![r] =
                IF StaticServes(reqs[r].req)
                THEN Respond(reqs[r], File(reqs[r].req.path))
                ELSE Forward(reqs[r])]
  /\ UNCHANGED <<variant, completed, now>>

---------------------------------------------------------------------------
(* The auth gate of src/server.js: checkAuth.                              *)

\* a || b on token channels: "none" is the absent (falsy) value
OrElse(a, b) == IF a # "none" THEN a ELSE b

\* req.query.token || req.headers.authorization?.replace('Bearer ', '')
CheckAuthToken(q) == OrElse(q.queryToken, q.bearer)

\* A gate that reads the token's claims without checking its signature (jwt.decode).
JwtDecodes(token) == token # "none"

\* jwt.verify(token, JWT_SECRET) returns the claims of a good token and throws otherwise
JwtVerifies(token) == token = "good"

\* The redirect of a request without token: back to originalUrl.
CheckAuthNoToken(q) ==
  Redirect(LoginUrlReturning(Url(q.origin, OriginalUrl(q).path, OriginalUrl(q).query)))

\* The redirect of a request whose token does not verify: back to req.path.
CheckAuthBadToken(q, mount) ==
  Redirect(LoginUrlReturning(Url(q.origin, ReqPath(mount, q.path), "")))

\* What checkAuth does with a verified token: the identity is attached, next() runs.
CheckAuthPass(s, token) ==
  Forward([s EXCEPT !.user = TheUser, !.token = token, !.validated = s.validated + 1])

CheckAuth(r) ==
  /\ AtLayer(r, "checkAuth")
  /\ LET s == reqs[r]
         token == CheckAuthToken(s.req)
     IN reqs' = [reqs EXCEPT ![r] =
                   IF token = "none" THEN Respond(s, CheckAuthNoToken(s.req))
                   ELSE IF JwtVerifies(token) THEN CheckAuthPass(s, token)
                   ELSE Respond(s, CheckAuthBadToken(s.req, MountOf(r)))]
  /\ UNCHANGED <<variant, completed, now>>

---------------------------------------------------------------------------
(* The auth gate of src/unnamed/part_000: requireAuth.                     *)

\* req.cookies[COOKIE_NAME] || req.headers.authorization?.replace('Bearer ', '')
RequireAuthToken(q) == OrElse(q.cookieToken, q.bearer)

\* No token: 401 with the login URL for a req.path under /api/, a redirect otherwise.
RequireAuthNoToken(q, mount) ==
  LET loginUrl == LoginUrlReturning(
                    Url(DASHBOARD_ORIGIN, OriginalUrl(q).path, OriginalUrl(q).query))
  IN IF StartsWithApi(ReqPath(mount, q.path))
     THEN Json(401, [error |-> "Not authenticated", loginUrl |-> loginUrl])
     ELSE Redirect(loginUrl)

\* The catch block: the token did not verify, or the verify call failed.
RequireAuthRejected(q, mount) ==
  IF StartsWithApi(ReqPath(mount, q.path))
  THEN Json(401, [error |-> "Not authenticated", loginUrl |-> LoginUrlBare])
  ELSE Redirect(LoginUrlBare)

\* What the identity provider's /api/verify may answer for a token: "ok" (2xx
\* with the user), "notok" (a non-2xx status), "neterr" (the call fails).
VerifyOutcomes(token) == IF token = "good" THEN {"ok", "neterr"} ELSE {"notok", "neterr"}

\* if (!response.ok) throw ...; a failed call throws as well
VerifyPasses(outcome) == outcome = "ok"

\* The verified token: the identity is attached, next() runs.
RequireAuthPass(s, token) ==
  Forward([s EXCEPT !.pc = "layer", !.user = TheUser, !.token = token,
                    !.validated = s.validated + 1])

\* requireAuth up to its await: answer a request without token, or call the
\* identity provider's verify endpoint.
RequireAuth(r) ==
  /\ AtLayer(r, "requireAuth")
  /\ LET s == reqs[r]
         token == RequireAuthToken(s.req)
     IN reqs' = [reqs EXCEPT ![r] =
                   IF token = "none" THEN Respond(s, RequireAuthNoToken(s.req, MountOf(r)))
                   ELSE [s EXCEPT !.pc = "verify", !.verifyCalls = s.verifyCalls + 1]]
  /\ UNCHANGED <<variant, completed, now>>

\* The verify call returns or fails.
VerifyReturn(r) ==
  /\ reqs[r].pc = "verify"
  /\ LET s == reqs[r]
         token == RequireAuthToken(s.req)
     IN \E outcome \in VerifyOutcomes(token) :
          reqs' = [reqs EXCEPT ![r] =
                     IF VerifyPasses(outcome) THEN RequireAuthPass(s, token)
                     ELSE Respond(s, RequireAuthRejected(s.req, MountOf(r)))]
  /\ UNCHANGED <<variant, completed, now>>

---------------------------------------------------------------------------
(* Calls to the backends.                                                  *)

\* How a call ends:
\*   "ok"       a 2xx response whose body parses
\*   "non2xx"   a non-2xx response whose body parses (a JSON error object)
\*   "badjson"  a response whose body does not parse: response.json() throws
\*   "neterr"   no response: fetch() throws
Outcomes == {"ok", "non2xx", "badjson", "neterr"}

\* node-fetch resolves on any status; only a failed call or a failed parse throws.
Throws(outcome) == outcome \in {"badjson", "neterr"}

\* The JSON error object of a backend that answers with a non-2xx status.
ErrorBody == [error |-> "upstream error"]
NoData == [none |-> TRUE]

\* A call as issued: the reply is filled in when it returns.
Call(to, method, path, query, body) ==
  [to |-> to, method |-> method, path |-> path, query |-> query, body |-> body,
   outcome |-> "pending", data |-> NoData]

\* The handler issues a call and is suspended at `await fetch(...)`.
Issue(s, pc, call) == [s EXCEPT !.pc = pc, !.calls = Append(s.calls, call)]

\* The pending (last) call returns.
Returned(s, outcome, data) ==
  [s EXCEPT !.calls[Len(s.calls)].outcome = outcome, !.calls[Len(s.calls)].data = data]

\* What a call may bring back, given the bodies a 2xx answer may carry.
Replies(okBodies) ==
  {[outcome |-> "ok", data |-> b] : b \in okBodies}
  \cup {[outcome |-> "non2xx", data |-> ErrorBody]}
  \cup {[outcome |-> o, data |-> NoData] : o \in {"badjson", "neterr"}}

\* obj.field of a parsed body: present or undefined
Has(obj, fld) == fld \in DOMAIN obj

\* A list of n opaque items.
Items(n) == [i \in 1..n |-> i]

\* A slice whose end index is taken as inclusive: one element too many.
SliceInclusive(list, n) == SubSeq(list, 1, IF Len(list) < n + 1 THEN Len(list) ELSE n + 1)

\* list.slice(0, n)
Slice(list, n) == SubSeq(list, 1, IF Len(list) < n THEN Len(list) ELSE n)

\* The Reminders backend's state as its list endpoint returns it.
RemindersList == [i \in 1..Len(ItemIds) |-> [id |-> ItemIds[i], completed |-> completed[ItemIds[i]]]]

\* What the backends answer with a 2xx status.
TodayBodies ==
  {[count |-> n, reminders |-> Items(n)] : n \in 0..MaxList} \cup {[count |-> 0]}
StatsBodies ==
  {[stats |-> [total |-> Len(ItemIds),
               incomplete |-> Cardinality({i \in DOMAIN completed : ~completed[i]}),
               overdue |-> 0, highPriority |-> 0]]}
SeminarsStatsBodies == {[upcoming_seminars |-> 2, total_speakers |-> 3, pending_tasks |-> 1]}
UpcomingBodies == {[seminars |-> Items(n)] : n \in 0..MaxList} \cup {[count |-> 0]}
AllRemindersBodies == {[count |-> Len(ItemIds), reminders |-> RemindersList]}
CreatedBodies == {[success |-> TRUE, id |-> "new"]}
BulkBodies == {[success |-> TRUE, updated |-> 1]}

\* A query that always carries the Reminders secret, whatever the backend.
SecretQueryOfReminders(v, app) == "secret" :> APPS(v).reminders.apiSecret

\* `${APPS.x.url}/api/external/...?secret=${APPS.x.apiSecret}`
SecretQuery(v, app) == "secret" :> APPS(v)[app].apiSecret

---------------------------------------------------------------------------
(* Routes.                                                                 *)

\* The route a request matches, "none" when there is none.
RouteOf(v, q) ==
  IF q.method = "GET" /\ q.path = <<"api", "overview">> THEN "overview"
  ELSE IF q.method = "GET" /\ q.path = <<"api", "reminders">> /\ v = "cookie" THEN "list"
  ELSE IF q.method = "POST" /\ q.path = <<"api", "reminders">> THEN "create"
  ELSE IF IsToggle(q) THEN "toggle"
  ELSE "none"

AtRoute(r, route) ==
  /\ AtLayer(r, "routes")
  /\ RouteOf(variant, reqs[r].req) = route

\* No route matches: Express' final handler answers 404.
NoRoute(r) ==
  /\ AtRoute(r, "none")
  /\ reqs' = [reqs EXCEPT ![r] = Respond(reqs[r], CannotRoute)]
  /\ UNCHANGED <<variant, completed, now>>

---------------------------------------------------------------------------
(* GET /api/overview.                                                      *)

ErrorMarker == [error |-> "Failed to load"]

\* x || 0 on a field that may be undefined
OrZero(obj, fld) == IF Has(obj, fld) THEN obj[fld] ELSE 0

\* list?.slice(0, 5) || []
Preview(obj, fld) == IF Has(obj, fld) THEN Slice(obj[fld], PreviewCap) ELSE <<>>

\* statsData.stats?.x || 0
StatOrZero(statsData, fld) ==
  IF Has(statsData, "stats") THEN OrZero(statsData.stats, fld) ELSE 0

RemindersSummary(remindersData, statsData) ==
  [name |-> "Reminders", color |-> "#007AFF",
   todayCount |-> OrZero(remindersData, "count"),
   total |-> StatOrZero(statsData, "total"),
   incomplete |-> StatOrZero(statsData, "incomplete"),
   overdue |-> StatOrZero(statsData, "overdue"),
   highPriority |-> StatOrZero(statsData, "highPriority"),
   items |-> Preview(remindersData, "reminders")]

ClassQuizzesSummary(v) ==
  [name |-> "ClassQuizzes", color |-> "#5856D6", url |-> APPS(v).classquizzes.url \o "/admin"]

SeminarsSummary(seminarsStats, seminarsUpcoming) ==
  [name |-> "Seminars", color |-> "#FF9500",
   upcomingCount |-> OrZero(seminarsStats, "upcoming_seminars"),
   totalSpeakers |-> OrZero(seminarsStats, "total_speakers"),
   pendingTasks |-> OrZero(seminarsStats, "pending_tasks"),
   items |-> Preview(seminarsUpcoming, "seminars")]

\* An assignment that replaces the whole `apps` object instead of one key.
SetSlotReplacing(apps, key, slot) == key :> slot

\* overview.apps[key] = slot
SetSlot(apps, key, slot) == (key :> slot) @@ apps

\* One catch block around all the backends: a failure marks every slot.
FailSlotAll(apps, key) == [k \in DOMAIN apps \cup {key} |-> ErrorMarker]

\* The catch block of one backend: overview.apps[key] = { error: 'Failed to load' }
FailSlot(apps, key) == SetSlot(apps, key, ErrorMarker)

\* An overview that fails as a whole when a backend failed.
OverviewResponseAborting(s) ==
  IF \E k \in DOMAIN s.apps : s.apps[k] = ErrorMarker
  THEN Json(500, [error |-> "Failed to load"])
  ELSE Json(200, [apps |-> s.apps, timestamp |-> s.ts])

\* res.json(overview)
OverviewResponse(s) == Json(200, [apps |-> s.apps, timestamp |-> s.ts])

\* What follows the Reminders block: the ClassQuizzes block (no call) and the
\* first call of the Seminars block in src/server.js, the response in part_000.
AfterReminders(s) ==
  IF variant = "server"
  THEN Issue([s EXCEPT !.apps = SetSlot(s.apps, "classquizzes", ClassQuizzesSummary(variant))],
             "ov_sem_stats",
             Call("seminars", "GET", "/api/external/stats",
                  SecretQuery(variant, "seminars"), NoData))
  ELSE Respond(s, OverviewResponse(s))

\* The handler starts: the timestamp is read, the Reminders block issues its first call.
OverviewStart(r) ==
  /\ AtRoute(r, "overview")
  /\ reqs' = [reqs EXCEPT ![r] =
                Issue([reqs[r] EXCEPT !.handler = "overview", !.ts = now],
                      "ov_rem_list",
                      Call("reminders", "GET", "/api/external/reminders",
                           SecretQuery(variant, "reminders") @@ ("today" :> "true"), NoData))]
  /\ UNCHANGED <<variant, completed, now>>

\* Today's reminders return: on a throw the block's catch runs, else the stats call is issued.
OverviewRemindersList(r) ==
  /\ reqs[r].pc = "ov_rem_list"
  /\ \E reply \in Replies(TodayBodies) :
       LET s == Returned(reqs[r], reply.outcome, reply.data)
       IN reqs' = [reqs EXCEPT ![r] =
                     IF Throws(reply.outcome)
                     THEN AfterReminders([s EXCEPT !.apps = FailSlot(s.apps, "reminders")])
                     ELSE Issue(s, "ov_rem_stats",
                                Call("reminders", "GET", "/api/external/stats",
                                     SecretQuery(variant, "reminders"), NoData))]
  /\ UNCHANGED <<variant, completed, now>>

\* The reminders' stats return: the slot is the summary, or the error marker on a throw.
OverviewRemindersStats(r) ==
  /\ reqs[r].pc = "ov_rem_stats"
  /\ \E reply \in Replies(StatsBodies) :
       LET s == Returned(reqs[r], reply.outcome, reply.data)
           remindersData == s.calls[Len(s.calls) - 1].data
       IN reqs' = [reqs EXCEPT ![r] =
                     AfterReminders(
                       [s EXCEPT !.apps =
                          IF Throws(reply.outcome)
                          THEN FailSlot(s.apps, "reminders")
                          ELSE SetSlot(s.apps, "reminders",
                                       RemindersSummary(remindersData, reply.data))])]
  /\ UNCHANGED <<variant, completed, now>>

\* The seminars' stats return (src/server.js).
OverviewSeminarsStats(r) ==
  /\ reqs[r].pc = "ov_sem_stats"
  /\ \E reply \in Replies(SeminarsStatsBodies) :
       LET s == Returned(reqs[r], reply.outcome, reply.data)
       IN reqs' = [reqs EXCEPT ![r] =
                     IF Throws(reply.outcome)
                     THEN LET f == [s EXCEPT !.apps = FailSlot(s.apps, "seminars")]
                          IN Respond(f, OverviewResponse(f))
                     ELSE Issue(s, "ov_sem_upcoming",
                                Call("seminars", "GET", "/api/external/upcoming",
                                     SecretQuery(variant, "seminars") @@ ("limit" :> "5"),
                                     NoData))]
  /\ UNCHANGED <<variant, completed, now>>

\* The upcoming seminars return (src/server.js): the last slot is set, the overview is sent.
OverviewSeminarsUpcoming(r) ==
  /\ reqs[r].pc = "ov_sem_upcoming"
  /\ \E reply \in Replies(UpcomingBodies) :
       LET s == Returned(reqs[r], reply.outcome, reply.data)
           seminarsStats == s.calls[Len(s.calls) - 1].data
           f == [s EXCEPT !.apps =
                   IF Throws(reply.outcome)
                   THEN FailSlot(s.apps, "seminars")
                   ELSE SetSlot(s.apps, "seminars",
                                SeminarsSummary(seminarsStats, reply.data))]
       IN reqs' = [reqs EXCEPT ![r] = Respond(f, OverviewResponse(f))]
  /\ UNCHANGED <<variant, completed, now>>

---------------------------------------------------------------------------
(* POST /api/reminders: create.                                            *)

\* A payload that spreads the request's body as it came: no defaults.
CreatePayloadAsGiven(v, body) == ("secret" :> APPS(v).reminders.apiSecret) @@ body

\* const { title, notes = '', priority = 'normal' } = req.body, then the body sent
CreatePayload(v, body) ==
  [secret |-> APPS(v).reminders.apiSecret,
   title |-> body.title,
   notes |-> IF Has(body, "notes") THEN body.notes ELSE "",
   priority |-> IF Has(body, "priority") THEN body.priority ELSE "normal"]

CreateStart(r) ==
  /\ AtRoute(r, "create")
  /\ reqs' = [reqs EXCEPT ![r] =
                Issue([reqs[r] EXCEPT !.handler = "create"], "create",
                      Call("reminders", "POST", "/api/external/reminder", <<>>,
                           CreatePayload(variant, reqs[r].req.body)))]
  /\ UNCHANGED <<variant, completed, now>>

\* res.json(data), or the catch block's 500
ProxyResponse(reply, message) ==
  IF Throws(reply.outcome) THEN Json(500, [error |-> message]) ELSE Json(200, reply.data)

CreateReturn(r) ==
  /\ reqs[r].pc = "create"
  /\ \E reply \in Replies(CreatedBodies) :
       reqs' = [reqs EXCEPT ![r] =
                  Respond(Returned(reqs[r], reply.outcome, reply.data),
                          ProxyResponse(reply, "Failed to create reminder"))]
  /\ UNCHANGED <<variant, completed, now>>

---------------------------------------------------------------------------
(* GET /api/reminders: the filtered list (part_000 only).                  *)

ListStart(r) ==
  /\ AtRoute(r, "list")
  /\ reqs' = [reqs EXCEPT ![r] =
                Issue([reqs[r] EXCEPT !.handler = "list"], "list",
                      Call("reminders", "GET", "/api/external/reminders",
                           SecretQuery(variant, "reminders"), NoData))]
  /\ UNCHANGED <<variant, completed, now>>

ListReturn(r) ==
  /\ reqs[r].pc = "list"
  /\ \E reply \in Replies(AllRemindersBodies) :
       reqs' = [reqs EXCEPT ![r] =
                  Respond(Returned(reqs[r], reply.outcome, reply.data),
                          ProxyResponse(reply, "Failed to fetch reminders"))]
  /\ UNCHANGED <<variant, completed, now>>

---------------------------------------------------------------------------
(* POST /api/reminders/:id/complete: toggle.                               *)

\* req.params.id
ParamId(q) == q.path[3]

\* A lookup that falls back on the first item when no id matches.
FindOrFirst(data, id) ==
  IF Has(data, "reminders") /\ Len(data.reminders) > 0
  THEN IF \E i \in DOMAIN data.reminders : data.reminders[i].id = id
       THEN CHOOSE i \in DOMAIN data.reminders : data.reminders[i].id = id
       ELSE 1
  ELSE 0

\* data.reminders?.find(r => r.id === id): the index of the first match, 0 for undefined
Find(data, id) ==
  IF Has(data, "reminders") /\ \E i \in DOMAIN data.reminders : data.reminders[i].id = id
  THEN CHOOSE i \in DOMAIN data.reminders :
         /\ data.reminders[i].id = id
         /\ \A j \in 1..(i - 1) : data.reminders[j].id # id
  ELSE 0

\* A handler that only ever completes: the flag read is ignored.
ToggleActionAlwaysComplete(reminder) == "complete"

\* The ternary with its branches swapped.
ToggleActionAsRead(reminder) == IF reminder.completed THEN "complete" ELSE "uncomplete"

\* reminder.completed ? 'uncomplete' : 'complete'
ToggleAction(reminder) == IF reminder.completed THEN "uncomplete" ELSE "complete"

BulkPayload(v, reminder, id) ==
  [secret |-> APPS(v).reminders.apiSecret, action |-> ToggleAction(reminder), ids |-> <<id>>]

ToggleStart(r) ==
  /\ AtRoute(r, "toggle")
  /\ reqs' = [reqs EXCEPT ![r] =
                Issue([reqs[r] EXCEPT !.handler = "toggle"], "tg_list",
                      Call("reminders", "GET", "/api/external/reminders",
                           SecretQuery(variant, "reminders"), NoData))]
  /\ UNCHANGED <<variant, completed, now>>

\* The list returns: 500 on a throw, 404 when the id is not found, else the bulk call.
ToggleListReturn(r) ==
  /\ reqs[r].pc = "tg_list"
  /\ \E reply \in Replies(AllRemindersBodies) :
       LET s == Returned(reqs[r], reply.outcome, reply.data)
           id == ParamId(s.req)
           found == Find(reply.data, id)
       IN reqs' = [reqs EXCEPT ![r] =
                     IF Throws(reply.outcome)
                     THEN Respond(s, Json(500, [error |-> "Failed to update reminder"]))
                     ELSE IF found = 0
                     THEN Respond(s, Json(404, [error |-> "Reminder not found"]))
                     ELSE Issue(s, "tg_bulk",
                                Call("reminders", "POST", "/api/external/bulk", <<>>,
                                     BulkPayload(variant, reply.data.reminders[found], id)))]
  /\ UNCHANGED <<variant, completed, now>>

\* The Reminders backend applies a bulk action it accepted (a 2xx answer,
\* parsed or not, says it did).
BulkApplied(outcome) == outcome \in {"ok", "badjson"}
ApplyBulk(state, payload) ==
  [i \in DOMAIN state |->
     IF \E k \in DOMAIN payload.ids : payload.ids[k] = i
     THEN payload.action = "complete"
     ELSE state[i]]

\* The bulk call returns: the backend's answer is passed on, or 500 on a throw.
ToggleBulkReturn(r) ==
  /\ reqs[r].pc = "tg_bulk"
  /\ \E reply \in Replies(BulkBodies) :
       LET s == reqs[r]
           payload == s.calls[Len(s.calls)].body
       IN /\ reqs' = [reqs EXCEPT ![r] =
                        Respond(Returned(s, reply.outcome, reply.data),
                                ProxyResponse(reply, "Failed to update reminder"))]
          /\ completed' = IF BulkApplied(reply.outcome)
                          THEN ApplyBulk(completed, payload)
                          ELSE completed
  /\ UNCHANGED <<variant, now>>

---------------------------------------------------------------------------
(* The server.                                                             *)

Next ==
  \/ Tick
  \/ \E r \in Slots :
       \/ Arrive(r)
       \/ Static(r)
       \/ CheckAuth(r)
       \/ RequireAuth(r)
       \/ VerifyReturn(r)
       \/ NoRoute(r)
       \/ OverviewStart(r)
       \/ OverviewRemindersList(r)
       \/ OverviewRemindersStats(r)
       \/ OverviewSeminarsStats(r)
       \/ OverviewSeminarsUpcoming(r)
       \/ CreateStart(r)
       \/ CreateReturn(r)
       \/ ListStart(r)
       \/ ListReturn(r)
       \/ ToggleStart(r)
       \/ ToggleListReturn(r)
       \/ ToggleBulkReturn(r)
       \/ Retire(r)

Spec == Init /\ [][Next]_vars

---------------------------------------------------------------------------
(* Vocabulary of the properties.                                           *)

\* The request of slot r has been answered by the handler of `route`.
Answered(r, route) == reqs[r].pc = "done" /\ reqs[r].handler = route

\* The call ended in a thrown failure: no response, or a body that does not parse.
Threw(call) == call.outcome \in {"neterr", "badjson"}

\* The call ended in a failure of any kind: thrown, or a non-2xx status.
Failed(call) == call.outcome \in {"neterr", "badjson", "non2xx"}

\* The calls a request made to one backend, in order.
CallsTo(s, app) == SelectSeq(s.calls, LAMBDA c : c.to = app)

\* The request carries no credential on any channel.
NoCredential(q) == q.queryToken = "none" /\ q.cookieToken = "none" /\ q.bearer = "none"

\* The request carries a credential, and it is not a good one.
BadCredential(q) ==
  /\ ~NoCredential(q)
  /\ "good" \notin {q.queryToken, q.cookieToken, q.bearer}

UnderApi(q) == Len(q.path) >= 2 /\ q.path[1] = "api"

\* The gates a request to this path has to pass before its route.
GatesOn(v, path) ==
  {i \in DOMAIN Layers(v) :
     Layers(v)[i].mw \in {"checkAuth", "requireAuth"} /\ Mounted(Layers(v)[i].mount, path)}

\* Every gate on the request's way has validated its credential.
AuthPassed(s) ==
  /\ s.validated >= 1
  /\ s.validated = Cardinality(GatesOn(variant, s.req.path))

\* The summary a backend's slot holds when none of its calls threw, from the
\* bodies of that backend's own calls.
OwnSummary(s, app) ==
  LET own == CallsTo(s, app)
  IN CASE app = "reminders" -> RemindersSummary(own[1].data, own[2].data)
       [] app = "seminars" -> SeminarsSummary(own[1].data, own[2].data)
       [] OTHER -> ClassQuizzesSummary(variant)

---------------------------------------------------------------------------
(* C1..C4: GET /api/overview.                                              *)

\* C1: in the overview's response, the slot of every backend is the error
\* marker exactly when one of that backend's own calls threw, and is the
\* summary built from that backend's own replies otherwise: the calls of the
\* other backends do not show in it.
C1_SlotFollowsOwnCalls ==
  \A r \in Slots :
    Answered(r, "overview") =>
      \A app \in DOMAIN APPS(variant) :
        LET s == reqs[r]
            own == CallsTo(s, app)
            threw == \E i \in DOMAIN own : Threw(own[i])
        IN /\ app \in DOMAIN s.resp.body.apps
           /\ threw => s.resp.body.apps[app] = ErrorMarker
           /\ ~threw => /\ s.resp.body.apps[app] # ErrorMarker
                        /\ s.resp.body.apps[app] = OwnSummary(s, app)

\* C1's case: an overview whose Reminders calls threw and whose Seminars calls
\* did not, answered with a Seminars summary that previews items.
C1_Witness ==
  \E r \in Slots :
    /\ Answered(r, "overview")
    /\ variant = "server"
    /\ reqs[r].resp.body.apps["reminders"] = ErrorMarker
    /\ reqs[r].resp.body.apps["seminars"] # ErrorMarker
    /\ Len(reqs[r].resp.body.apps["seminars"].items) = PreviewCap

\* C2: the overview's response has exactly one slot per backend of the
\* registry APPS, whatever the outcomes of the calls.
C2_OneSlotPerBackend ==
  \A r \in Slots :
    Answered(r, "overview") =>
      DOMAIN reqs[r].resp.body.apps = DOMAIN APPS(variant)

\* C2's case: an overview answered after every backend that is called failed.
C2_Witness ==
  \E r \in Slots :
    /\ Answered(r, "overview")
    /\ \A i \in DOMAIN reqs[r].calls : Failed(reqs[r].calls[i])
    /\ \E i, j \in DOMAIN reqs[r].calls : reqs[r].calls[i].to # reqs[r].calls[j].to

\* C3: a request to GET /api/overview that passed the auth gate(s) is
\* answered 200 whatever the calls did, with a numeric timestamp read no
\* earlier than the request's arrival.
C3_OverviewSucceedsWithTimestamp ==
  \A r \in Slots :
    LET s == reqs[r]
    IN (s.pc = "done" /\ RouteOf(variant, s.req) = "overview" /\ AuthPassed(s)) =>
         /\ s.resp.status = 200
         /\ s.resp.kind = "json"
         /\ s.resp.body.timestamp \in Nat
         /\ s.resp.body.timestamp >= s.start
         /\ s.resp.body.timestamp <= now

\* C3's case: an overview whose calls all threw, answered after the clock
\* moved between the request's arrival and the handler's start.
C3_Witness ==
  \E r \in Slots :
    /\ Answered(r, "overview")
    /\ AuthPassed(reqs[r])
    /\ \A i \in DOMAIN reqs[r].calls : Threw(reqs[r].calls[i])
    /\ reqs[r].resp.body.timestamp > reqs[r].start

\* C4: in the overview, any failure of a backend's call, a non-2xx status
\* and a malformed body included, puts the error marker in that backend's
\* slot: a non-2xx answer is never shaped into a summary.
C4_AnyFailureGivesErrorMarker ==
  \A r \in Slots :
    Answered(r, "overview") =>
      \A app \in DOMAIN APPS(variant) :
        LET own == CallsTo(reqs[r], app)
        IN (\E i \in DOMAIN own : Failed(own[i])) =>
             reqs[r].resp.body.apps[app] = ErrorMarker

---------------------------------------------------------------------------
(* C5, C6: POST /api/reminders/:id/complete.                               *)

\* The list a toggle read from the backend (its first call), once it has
\* returned without throwing.
ListRead(s) ==
  /\ s.handler = "toggle"
  /\ s.calls[1].outcome # "pending"
  /\ ~Threw(s.calls[1])

\* The items of the list read that carry the id asked for.
Matching(s) ==
  IF Has(s.calls[1].data, "reminders")
  THEN {i \in DOMAIN s.calls[1].data.reminders :
          s.calls[1].data.reminders[i].id = ParamId(s.req)}
  ELSE {}

\* The bulk calls a request has issued.
BulkCalls(s) == {i \in DOMAIN s.calls : s.calls[i].path = "/api/external/bulk"}

\* C5: a toggle whose id is in the list it read issues exactly one bulk call,
\* for that single id, whose action is the inverse of the `completed` flag
\* it read: "complete" for false, "uncomplete" for true.
C5_ToggleInvertsFlagRead ==
  \A r \in Slots :
    LET s == reqs[r]
    IN (ListRead(s) /\ Matching(s) # {}) =>
         /\ Cardinality(BulkCalls(s)) = 1
         /\ \A i \in BulkCalls(s) :
              /\ s.calls[i].method = "POST"
              /\ s.calls[i].body.ids = <<ParamId(s.req)>>
              /\ \A m \in Matching(s) :
                   s.calls[i].body.action =
                     (IF s.calls[1].data.reminders[m].completed
                      THEN "uncomplete" ELSE "complete")

\* C5's case: a toggle that read `completed = true` and whose bulk call,
\* asking to "uncomplete", has been applied by the backend.
C5_Witness ==
  \E r \in Slots :
    /\ Answered(r, "toggle")
    /\ ListRead(reqs[r])
    /\ \E m \in Matching(reqs[r]) : reqs[r].calls[1].data.reminders[m].completed
    /\ \E i \in BulkCalls(reqs[r]) :
         reqs[r].calls[i].body.action = "uncomplete" /\ reqs[r].calls[i].outcome = "ok"
    /\ ~completed[ParamId(reqs[r].req)]

\* C6: a toggle whose id is not in the list it read is answered
\* 404 {error: "Reminder not found"} and issues no bulk call: the list read
\* is the only call it makes.
C6_UnknownIdIs404WithoutWrite ==
  \A r \in Slots :
    LET s == reqs[r]
    IN (ListRead(s) /\ Has(s.calls[1].data, "reminders") /\ Matching(s) = {}) =>
         /\ s.pc = "done"
         /\ s.resp = Json(404, [error |-> "Reminder not found"])
         /\ BulkCalls(s) = {}
         /\ Len(s.calls) = 1

\* C6's case: a toggle of an id the backend does not hold, answered 404.
C6_Witness ==
  \E r \in Slots :
    /\ Answered(r, "toggle")
    /\ ListRead(reqs[r])
    /\ Has(reqs[r].calls[1].data, "reminders")
    /\ Len(reqs[r].calls[1].data.reminders) > 0
    /\ Matching(reqs[r]) = {}
    /\ reqs[r].resp.status = 404

---------------------------------------------------------------------------
(* C7..C10: the auth gate.                                                 *)

\* The login URL a rejection carries: the Location of a redirect, the
\* loginUrl of a 401 payload.
LoginUrlOf(resp) ==
  IF resp.kind = "redirect" THEN resp.location ELSE resp.body.loginUrl

\* C7: a request to a path under /api that carries no credential is answered
\* 401 with a payload holding an error and a login URL, never with a redirect.
C7_ApiWithoutCredentialIs401 ==
  \A r \in Slots :
    LET s == reqs[r]
    IN (s.pc = "done" /\ UnderApi(s.req) /\ NoCredential(s.req)) =>
         /\ s.resp.status = 401
         /\ s.resp.kind = "json"
         /\ Has(s.resp.body, "error")
         /\ Has(s.resp.body, "loginUrl")

\* C8: a request to a page path that carries no credential is answered with
\* a 3xx redirect to the identity provider's login endpoint whose returnTo
\* is the URL that was asked for; the page is not served.
C8_PageWithoutCredentialRedirects ==
  \A r \in Slots :
    LET s == reqs[r]
    IN (s.pc = "done" /\ ~UnderApi(s.req) /\ NoCredential(s.req)) =>
         /\ s.resp.kind = "redirect"
         /\ s.resp.status \in 300..399
         /\ s.resp.location.endpoint = AUTH_SERVICE \o "/login"
         /\ Has(s.resp.location, "returnTo")
         /\ decodeURIComponent(s.resp.location.returnTo) = RequestedUrl(s.req)

\* C9: a route handler runs for a request under /api, and a backend is
\* called, only after the gate validated the request's credential: a good
\* token travels with the request, the gate validated it and attached the
\* identity before the routes were reached.
C9_NoRouteLogicWithoutValidation ==
  \A r \in Slots :
    LET s == reqs[r]
    IN (/\ UnderApi(s.req)
        /\ \/ s.handler # "none"
           \/ Len(s.calls) > 0
           \/ (s.pc = "layer" /\ Layers(variant)[s.layer].mw = "routes")) =>
         /\ s.validated >= 1
         /\ s.user = TheUser
         /\ ~NoCredential(s.req)
         /\ ~BadCredential(s.req)

\* C9's case: a handler that has called a backend for a validated request.
C9_Witness ==
  \E r \in Slots :
    /\ reqs[r].handler # "none"
    /\ Len(reqs[r].calls) > 0
    /\ reqs[r].calls[1].outcome # "pending"
    /\ reqs[r].validated >= 1

\* The same request without its credential.
Stripped(q) == [q EXCEPT !.queryToken = "none", !.cookieToken = "none", !.bearer = "none"]

\* What the first gate on its way answers a request that carries no credential.
NoCredentialResponse(v, q) ==
  LET gate == CHOOSE i \in GatesOn(v, q.path) : \A j \in GatesOn(v, q.path) : i <= j
  IN IF v = "server"
     THEN CheckAuthNoToken(Stripped(q))
     ELSE RequireAuthNoToken(Stripped(q), Layers(v)[gate].mount)

\* C10: a request whose credential fails validation is answered as the same
\* request without credential is: the same status, the same login URL with
\* the same returnTo; and no identity is attached to it.
C10_BadCredentialAsNoCredential ==
  \A r \in Slots :
    LET s == reqs[r]
    IN (/\ s.pc = "done"
        /\ s.req.queryToken = "none"
        /\ BadCredential(s.req)
        /\ GatesOn(variant, s.req.path) # {}
        /\ ~StaticServes(s.req)) =>
         /\ s.resp.status = NoCredentialResponse(variant, s.req).status
         /\ LoginUrlOf(s.resp) = LoginUrlOf(NoCredentialResponse(variant, s.req))
         /\ s.user = NoUser

---------------------------------------------------------------------------
(* C11..C13: the proxy endpoints and the calls they issue.                 *)

\* C11: POST /api/reminders issues one call, POST /api/external/reminder,
\* whose body is {secret, title, notes, priority} with notes "" and
\* priority "normal" where the request leaves them out and the request's
\* values otherwise; the JSON the backend answers is returned as it is.
C11_CreateForwardsWithDefaults ==
  \A r \in Slots :
    LET s == reqs[r]
        b == s.req.body
    IN s.handler = "create" =>
         /\ Len(s.calls) = 1
         /\ s.calls[1].to = "reminders"
         /\ s.calls[1].method = "POST"
         /\ s.calls[1].path = "/api/external/reminder"
         /\ DOMAIN s.calls[1].body = {"secret", "title", "notes", "priority"}
         /\ s.calls[1].body.secret = APPS(variant).reminders.apiSecret
         /\ s.calls[1].body.title = b.title
         /\ s.calls[1].body.notes = (IF "notes" \in DOMAIN b THEN b.notes ELSE "")
         /\ s.calls[1].body.priority =
              (IF "priority" \in DOMAIN b THEN b.priority ELSE "normal")
         /\ (s.pc = "done" /\ ~Threw(s.calls[1])) =>
              (s.resp.kind = "json" /\ s.resp.body = s.calls[1].data)

\* C11's case: a create that gave only a title, answered with the backend's JSON.
C11_Witness ==
  \E r \in Slots :
    /\ Answered(r, "create")
    /\ DOMAIN reqs[r].req.body = {"title"}
    /\ reqs[r].calls[1].outcome = "ok"
    /\ reqs[r].calls[1].body.priority = "normal"
    /\ reqs[r].resp.body = reqs[r].calls[1].data

\* C12: in create and toggle, an upstream call that fails, by a network
\* failure or by a non-2xx status, is answered with a 5xx response carrying
\* an error message: never with a success, never with a 404.
C12_ProxyFailureIs5xx ==
  \A r \in Slots :
    LET s == reqs[r]
    IN (/\ s.pc = "done"
        /\ s.handler \in {"create", "toggle"}
        /\ \E i \in DOMAIN s.calls : s.calls[i].outcome \in {"neterr", "non2xx"}) =>
         /\ s.resp.status \in 500..599
         /\ Has(s.resp.body, "error")

\* C13 as stated: every call to a backend, GET or POST, carries that
\* backend's shared secret as the query parameter `secret` of its URL.
C13_SecretInQueryOfEveryCall ==
  \A r \in Slots :
    \A i \in DOMAIN reqs[r].calls :
      LET c == reqs[r].calls[i]
      IN /\ Has(c.query, "secret")
         /\ c.query.secret = APPS(variant)[c.to].apiSecret

\* C13, amended: every call to a backend carries that backend's shared
\* secret: a GET call as the query parameter `secret` of its URL, a POST call
\* (create, bulk) as the field `secret` of its JSON body, its URL having no
\* query.
C13_SecretInQueryOrBody ==
  \A r \in Slots :
    \A i \in DOMAIN reqs[r].calls :
      LET c == reqs[r].calls[i]
          secret == APPS(variant)[c.to].apiSecret
      IN /\ c.method \in {"GET", "POST"}
         /\ c.method = "GET" =>
              /\ Has(c.query, "secret")
              /\ c.query.secret = secret
              /\ ~Has(c.body, "secret")
         /\ c.method = "POST" =>
              /\ DOMAIN c.query = {}
              /\ Has(c.body, "secret")
              /\ c.body.secret = secret

\* C13's case: a toggle that has issued its GET and then its POST to the
\* Reminders backend, the POST having been accepted.
C13_Witness ==
  \E r \in Slots :
    /\ Len(reqs[r].calls) = 2
    /\ reqs[r].calls[1].method = "GET"
    /\ reqs[r].calls[2].method = "POST"
    /\ reqs[r].calls[2].to = "reminders"
    /\ reqs[r].calls[2].outcome = "ok"

---------------------------------------------------------------------------
(* C14: the read-then-write race of two toggles.                           *)

\* The `completed` flag a toggle read for its id.
FlagRead(s) ==
  LET m == CHOOSE i \in Matching(s) : TRUE
  IN s.calls[1].data.reminders[m].completed

\* The toggle's bulk call has been accepted and applied by the backend.
BulkWritten(s) ==
  /\ Len(s.calls) = 2
  /\ s.calls[2].path = "/api/external/bulk"
  /\ s.calls[2].outcome \in {"ok", "badjson"}

\* Two answered toggles of the same id that read the same flag and whose
\* bulk writes were both applied.
StaleOverwrite(r1, r2) ==
  /\ r1 # r2
  /\ Answered(r1, "toggle") /\ Answered(r2, "toggle")
  /\ ParamId(reqs[r1].req) = ParamId(reqs[r2].req)
  /\ ListRead(reqs[r1]) /\ Matching(reqs[r1]) # {}
  /\ ListRead(reqs[r2]) /\ Matching(reqs[r2]) # {}
  /\ FlagRead(reqs[r1]) = FlagRead(reqs[r2])
  /\ BulkWritten(reqs[r1]) /\ BulkWritten(reqs[r2])

\* C14: when two toggles of the same id have both read the same `completed`
\* value and both bulk writes were applied, the two issued the same action
\* and the item's flag is the inverse of the value read: flipped once, not
\* twice back to where it was.
C14_SameReadFlipsOnce ==
  \A r1, r2 \in Slots :
    StaleOverwrite(r1, r2) =>
      /\ reqs[r1].calls[2].body.action = reqs[r2].calls[2].body.action
      /\ completed[ParamId(reqs[r1].req)] = ~FlagRead(reqs[r1])

\* C14's case: the interleaving is reachable. Two toggles of the same id
\* both read `completed = true`, both asked to "uncomplete", both writes were
\* applied, and the item is left uncompleted.
C14_Witness ==
  \E r1, r2 \in Slots :
    /\ StaleOverwrite(r1, r2)
    /\ FlagRead(reqs[r1])
    /\ reqs[r1].calls[2].body.action = "uncomplete"
    /\ reqs[r2].calls[2].body.action = "uncomplete"
    /\ ~completed[ParamId(reqs[r1].req)]

---------------------------------------------------------------------------
(* C15: no retries within one overview request.                            *)

\* The endpoint a call goes to.
Endpoint(call) == <<call.to, call.path>>

\* C15: in an overview request every upstream endpoint is called at most
\* once; once a call to a backend has failed (no answer, an unparseable
\* body, or a non-2xx status) the request issues no further call to that
\* backend, and the answer holds the error marker in that backend's slot.
C15_NoCallAfterFailure ==
  \A r \in Slots :
    reqs[r].handler = "overview" =>
      LET calls == reqs[r].calls
      IN /\ \A i, j \in DOMAIN calls :
              Endpoint(calls[i]) = Endpoint(calls[j]) => i = j
         /\ \A i, j \in DOMAIN calls :
              (i < j /\ Failed(calls[i])) => calls[j].to # calls[i].to
         /\ \A i \in DOMAIN calls :
              (Answered(r, "overview") /\ Failed(calls[i])) =>
                reqs[r].resp.body.apps[calls[i].to] = ErrorMarker

---------------------------------------------------------------------------
(* C16: the preview list of a summary.                                     *)

\* The body a backend's list endpoint returned to an overview request, and
\* the field that holds its list.
ListReply(s, app) ==
  IF app = "reminders" THEN CallsTo(s, app)[1].data ELSE CallsTo(s, app)[2].data
ListField(app) == IF app = "reminders" THEN "reminders" ELSE "seminars"

\* The first min(n, Len(list)) elements of a list.
Prefix(list, n) ==
  [i \in 1..(IF Len(list) < n THEN Len(list) ELSE n) |-> list[i]]

\* The slots of an answered overview that hold a summary with a preview.
Previews(r) ==
  {app \in DOMAIN reqs[r].resp.body.apps :
     /\ reqs[r].resp.body.apps[app] # ErrorMarker
     /\ Has(reqs[r].resp.body.apps[app], "items")}

\* C16: in every summary of an overview response, `items` is the prefix of
\* the list the backend returned, of length min(5, length of the list), the
\* empty list when the backend's answer has no list, and never longer than 5.
C16_ItemsIsPrefixOfFive ==
  \A r \in Slots :
    Answered(r, "overview") =>
      \A app \in Previews(r) :
        LET items == reqs[r].resp.body.apps[app].items
            reply == ListReply(reqs[r], app)
        IN /\ Len(items) <= 5
           /\ items = IF Has(reply, ListField(app))
                      THEN Prefix(reply[ListField(app)], 5)
                      ELSE <<>>

\* C16's case: a backend returned more than 5 entries and the summary holds
\* the first 5 of them, while another summary was built from an answer with
\* no list.
C16_Witness ==
  \E r \in Slots :
    /\ Answered(r, "overview")
    /\ Previews(r) = {"reminders", "seminars"}
    /\ Has(ListReply(reqs[r], "reminders"), "reminders")
    /\ Len(ListReply(reqs[r], "reminders").reminders) > 5
    /\ Len(reqs[r].resp.body.apps.reminders.items) = 5
    /\ ~Has(ListReply(reqs[r], "seminars"), "seminars")
    /\ reqs[r].resp.body.apps.seminars.items = <<>>

---------------------------------------------------------------------------
(* C17: every /api request gets exactly one response.                      *)

\* One step of the request in slot r: a middleware or handler runs up to its
\* next await, or a pending outbound call returns or fails.
Step(r) ==
  \/ Static(r)
  \/ CheckAuth(r)
  \/ RequireAuth(r)
  \/ VerifyReturn(r)
  \/ NoRoute(r)
  \/ OverviewStart(r)
  \/ OverviewRemindersList(r)
  \/ OverviewRemindersStats(r)
  \/ OverviewSeminarsStats(r)
  \/ OverviewSeminarsUpcoming(r)
  \/ CreateStart(r)
  \/ CreateReturn(r)
  \/ ListStart(r)
  \/ ListReturn(r)
  \/ ToggleStart(r)
  \/ ToggleListReturn(r)
  \/ ToggleBulkReturn(r)

\* The event loop runs every callback that is ready, and every outbound call
\* eventually returns or fails.
FairSpec == Spec /\ \A r \in Slots : WF_vars(Step(r))

\* C17: a request to a path under /api never has two responses written, has
\* one written exactly when it has ended, and, every outbound call eventually
\* returning or failing, always ends: no path leaves it without a response.
C17_ExactlyOneResponse ==
  /\ [](\A r \in Slots :
          (InFlight(r) /\ UnderApi(reqs[r].req)) =>
            /\ reqs[r].responses <= 1
            /\ (reqs[r].pc = "done" <=> reqs[r].responses = 1))
  /\ \A r \in Slots :
       (InFlight(r) /\ UnderApi(reqs[r].req)) ~> (reqs[r].pc = "done")

\* C17's case: an /api request that passed the gate, whose upstream call
\* threw, has ended with its one response, the handler's 500.
C17_Witness ==
  \E r \in Slots :
    /\ UnderApi(reqs[r].req)
    /\ Answered(r, "toggle")
    /\ Len(reqs[r].calls) = 1 /\ Threw(reqs[r].calls[1])
    /\ reqs[r].resp.status = 500
    /\ reqs[r].responses = 1

---------------------------------------------------------------------------
(* C18: one validation per request in the remote-verification build.       *)

\* C18: in the build that verifies remotely, a request under /api that
\* reached its route handler had its credential validated exactly once:
\* one call to the identity provider's verify endpoint was made for it.
C18_VerifiedExactlyOnce ==
  \A r \in Slots :
    (variant = "cookie" /\ UnderApi(reqs[r].req) /\ reqs[r].handler # "none") =>
      /\ reqs[r].verifyCalls = 1
      /\ reqs[r].validated = 1

====
